---- MODULE Spec2Model ----
(***************************************************************************)
(* Slack search MCP tools: request validation, query translation, the      *)
(* single outbound search call and the normalization of its response.      *)
(*                                                                         *)
(* Strings are sequences of one-character strings, so that concatenation,  *)
(* length and substring search are computed and not assumed.  A JavaScript *)
(* value is a record tagged with its typeof; an object is a function whose *)
(* DOMAIN is the set of keys it carries, so an absent key, a key holding   *)
(* undefined and a key holding null are three different things.            *)
(***************************************************************************)
EXTENDS Integers, Sequences, FiniteSets, TLC

\* ------------------------------------------------------------------------
\* Bounds of the model
\* ------------------------------------------------------------------------
MaxMatches == 2
MaxFlights == 2
MaxRequests == 2

\* ------------------------------------------------------------------------
\* Program constants
\* ------------------------------------------------------------------------
DEFAULT_LIMIT == 20
MAX_LIMIT == 100
MIN_LIMIT == 1
DEFAULT_PORT == 3000
HTTP_INTERNAL_SERVER_ERROR == 500

\* ------------------------------------------------------------------------
\* JavaScript values
\* ------------------------------------------------------------------------
Undefined == [t |-> "undefined"]
Null == [t |-> "null"]
Str(s) == [t |-> "string", v |-> s]
Bool(b) == [t |-> "boolean", v |-> b]
\* a number is kept in tenths, so 10.5 is Num(105) and 20 is Num(200)
Num(tenths) == [t |-> "number", v |-> tenths]
Obj(fields) == [t |-> "object", v |-> fields]
Int10(n) == Num(10 * n)

EmptyObject == <<>>
\* o.k : reading a key the object does not carry gives undefined
Get(o, k) == IF k \in DOMAIN o THEN o[k] ELSE Undefined
\* { ...a, ...b }
Merge(a, b) == [k \in DOMAIN a \cup DOMAIN b |-> IF k \in DOMAIN b THEN b[k] ELSE a[k]]
\* { k: v }
Field(k, v) == [x \in {k} |-> v]
\* a ?? b
Coalesce(a, b) == IF a.t \in {"undefined", "null"} THEN b ELSE a
\* the truthiness an if, && or ?: applies to a value
Truthy(a) ==
  CASE a.t = "undefined" -> FALSE
    [] a.t = "null" -> FALSE
    [] a.t = "string" -> Len(a.v) > 0
    [] a.t = "boolean" -> a.v
    [] a.t = "number" -> a.v # 0
    [] OTHER -> TRUE

\* ------------------------------------------------------------------------
\* Zod schemas of the two tools
\* ------------------------------------------------------------------------
Issue(path, message) == [path |-> path, message |-> message]

\* the type name zod reports for a value that has the wrong type
Received(a) == a.t

InvalidType(path, expected, a) ==
  Issue(path, <<"Invalid input: expected ", expected, ", received ", Received(a)>>)

RequiredStringAnyLength(path, a, message) ==
  IF a.t # "string" THEN <<InvalidType(path, "string", a)>> ELSE <<>>

\* z.string().min(1, message)
RequiredString(path, a, message) ==
  IF a.t # "string" THEN <<InvalidType(path, "string", a)>>
  ELSE IF Len(a.v) < 1 THEN <<Issue(path, <<message>>)>>
  ELSE <<>>

\* z.string().optional()
OptionalString(path, a) ==
  IF a.t = "undefined" \/ a.t = "string" THEN <<>>
  ELSE <<InvalidType(path, "string", a)>>

\* z.boolean().optional()
OptionalBoolean(path, a) ==
  IF a.t = "undefined" \/ a.t = "boolean" THEN <<>>
  ELSE <<InvalidType(path, "boolean", a)>>

LimitIssuesExclusiveMax(a) ==
  IF a.t = "undefined" THEN <<>>
  ELSE IF a.t # "number" THEN <<InvalidType("limit", "number", a)>>
  ELSE (IF a.v % 10 # 0 THEN <<Issue("limit", <<"Limit must be an integer">>)>> ELSE <<>>)
    \o (IF a.v < 10 * MIN_LIMIT
          THEN <<Issue("limit", <<"Limit must be at least ", ToString(MIN_LIMIT)>>)>> ELSE <<>>)
    \o (IF a.v >= 10 * MAX_LIMIT
          THEN <<Issue("limit", <<"Limit cannot exceed ", ToString(MAX_LIMIT)>>)>> ELSE <<>>)

\* z.number().int(..).min(MIN_LIMIT, ..).max(MAX_LIMIT, ..).optional():
\* a number runs all three checks, each adding its own issue
LimitIssues(a) ==
  IF a.t = "undefined" THEN <<>>
  ELSE IF a.t # "number" THEN <<InvalidType("limit", "number", a)>>
  ELSE (IF a.v % 10 # 0 THEN <<Issue("limit", <<"Limit must be an integer">>)>> ELSE <<>>)
    \o (IF a.v < 10 * MIN_LIMIT
          THEN <<Issue("limit", <<"Limit must be at least ", ToString(MIN_LIMIT)>>)>> ELSE <<>>)
    \o (IF a.v > 10 * MAX_LIMIT
          THEN <<Issue("limit", <<"Limit cannot exceed ", ToString(MAX_LIMIT)>>)>> ELSE <<>>)

\* the optional fields the two schemas share, in the order they are declared
CommonIssues(input) ==
  LimitIssues(Get(input, "limit"))
    \o OptionalString("cursor", Get(input, "cursor"))
    \o OptionalString("from_date", Get(input, "from_date"))
    \o OptionalString("to_date", Get(input, "to_date"))
    \o OptionalString("user_id", Get(input, "user_id"))
    \o OptionalBoolean("has_reactions", Get(input, "has_reactions"))
    \o OptionalBoolean("has_threads", Get(input, "has_threads"))

searchMessagesSchema(input) ==
  RequiredString("query", Get(input, "query"), "Query cannot be empty")
    \o CommonIssues(input)

searchInChannelSchemaNoChannel(input) ==
  RequiredString("query", Get(input, "query"), "Query cannot be empty")
    \o CommonIssues(input)

searchInChannelSchema(input) ==
  RequiredString("query", Get(input, "query"), "Query cannot be empty")
    \o RequiredString("channel_id", Get(input, "channel_id"), "Channel ID is required")
    \o CommonIssues(input)

SchemaKeys(tool) ==
  {"query", "limit", "cursor", "from_date", "to_date", "user_id", "has_reactions", "has_threads"}
    \cup (IF tool = "search_in_channel" THEN {"channel_id"} ELSE {})

SchemaIssuesStrict(tool, input) ==
  (IF tool = "search_in_channel" THEN searchInChannelSchema(input)
   ELSE searchMessagesSchema(input))
    \o (IF DOMAIN input \subseteq SchemaKeys(tool) THEN <<>>
        ELSE <<Issue("", <<"Unrecognized key">>)>>)

SchemaIssues(tool, input) ==
  IF tool = "search_in_channel" THEN searchInChannelSchema(input)
  ELSE searchMessagesSchema(input)

\* what a successful parse hands to the handler: the declared keys only
Parsed(tool, input) == [k \in DOMAIN input \cap SchemaKeys(tool) |-> input[k]]

\* ------------------------------------------------------------------------
\* Tool handlers: tool input -> client params
\* ------------------------------------------------------------------------
\* ...(cond && { k: v })
Spread(cond, o) == IF cond THEN o ELSE EmptyObject

RenameIfTruthy(input, k, name) ==
  Spread(Truthy(Get(input, k)), Field(name, Get(input, k)))

\* ...(input.k !== undefined && { name: input.k })
Rename(input, k, name) ==
  Spread(Get(input, k).t # "undefined", Field(name, Get(input, k)))

OptionalParams(input) ==
  Merge(Rename(input, "limit", "limit"),
  Merge(Rename(input, "cursor", "cursor"),
  Merge(Rename(input, "from_date", "fromDate"),
  Merge(Rename(input, "to_date", "toDate"),
  Merge(Rename(input, "user_id", "userId"),
  Merge(Rename(input, "has_reactions", "hasReactions"),
        Rename(input, "has_threads", "hasThreads")))))))

searchMessagesParams(input) ==
  Merge(Field("query", Get(input, "query")), OptionalParams(input))

searchInChannelParams(input) ==
  Merge(Field("query", Get(input, "query")),
  Merge(Field("channelId", Get(input, "channel_id")), OptionalParams(input)))

HandlerParams(tool, input) ==
  IF tool = "search_in_channel" THEN searchInChannelParams(input)
  ELSE searchMessagesParams(input)

\* ------------------------------------------------------------------------
\* SlackClient: query translation
\* ------------------------------------------------------------------------
After == <<" ", "a", "f", "t", "e", "r", ":">>
Before == <<" ", "b", "e", "f", "o", "r", "e", ":">>
From == <<" ", "f", "r", "o", "m", ":">>
HasReaction == <<" ", "h", "a", "s", ":", "r", "e", "a", "c", "t", "i", "o", "n">>
HasThread == <<" ", "h", "a", "s", ":", "t", "h", "r", "e", "a", "d">>
In == <<" ", "i", "n", ":">>

ClauseIfDefined(a, prefix) == IF a.t # "undefined" THEN prefix \o a.v ELSE <<>>

\* if (a) { query += `${prefix}${a}` }
Clause(a, prefix) == IF Truthy(a) THEN prefix \o a.v ELSE <<>>

FlagIfDefined(a, literal) == IF a.t # "undefined" THEN literal ELSE <<>>

\* if (a) { query += literal }
Flag(a, literal) == IF Truthy(a) THEN literal ELSE <<>>

buildSearchQueryUserFirst(params, channelId) ==
  Get(params, "query").v
    \o Clause(Get(params, "userId"), From)
    \o Clause(Get(params, "fromDate"), After)
    \o Clause(Get(params, "toDate"), Before)
    \o Flag(Get(params, "hasReactions"), HasReaction)
    \o Flag(Get(params, "hasThreads"), HasThread)
    \o Clause(channelId, In)

buildSearchQueryChannelFirst(params, channelId) ==
  Get(params, "query").v
    \o Clause(channelId, In)
    \o Clause(Get(params, "fromDate"), After)
    \o Clause(Get(params, "toDate"), Before)
    \o Clause(Get(params, "userId"), From)
    \o Flag(Get(params, "hasReactions"), HasReaction)
    \o Flag(Get(params, "hasThreads"), HasThread)

buildSearchQueryQuoted(params, channelId) ==
  <<"\"">> \o Get(params, "query").v \o <<"\"">>
    \o Clause(Get(params, "fromDate"), After)
    \o Clause(Get(params, "toDate"), Before)
    \o Clause(Get(params, "userId"), From)
    \o Flag(Get(params, "hasReactions"), HasReaction)
    \o Flag(Get(params, "hasThreads"), HasThread)
    \o Clause(channelId, In)

buildSearchQuery(params, channelId) ==
  Get(params, "query").v
    \o Clause(Get(params, "fromDate"), After)
    \o Clause(Get(params, "toDate"), Before)
    \o Clause(Get(params, "userId"), From)
    \o Flag(Get(params, "hasReactions"), HasReaction)
    \o Flag(Get(params, "hasThreads"), HasThread)
    \o Clause(channelId, In)

\* searchMessages passes no channel, searchInChannel passes params.channelId
ClientQuery(tool, params) ==
  IF tool = "search_in_channel" THEN buildSearchQuery(params, Get(params, "channelId"))
  ELSE buildSearchQuery(params, Undefined)

\* ------------------------------------------------------------------------
\* SlackClient: the outbound call and the normalization of its response
\* ------------------------------------------------------------------------
SearchArgumentsDefaultCount(query, limit, cursor) ==
  Merge(Field("query", Str(query)),
  Merge(Field("count", Int10(DEFAULT_LIMIT)),
        Spread(Truthy(cursor), Field("cursor", cursor))))

SearchArgumentsAnyCursor(query, limit, cursor) ==
  Merge(Field("query", Str(query)),
  Merge(Field("count", Coalesce(limit, Int10(DEFAULT_LIMIT))),
        Spread(cursor.t # "undefined", Field("cursor", cursor))))

\* the argument of client.search.messages
SearchArguments(query, limit, cursor) ==
  Merge(Field("query", Str(query)),
  Merge(Field("count", Coalesce(limit, Int10(DEFAULT_LIMIT))),
        Spread(Truthy(cursor), Field("cursor", cursor))))

Array(s) == [t |-> "array", v |-> s]
TypeError == [t |-> "TypeError"]

\* typeof null is 'object' too: without the null test, null.id throws
ChannelOfNoNullTest(a) ==
  IF a.t = "null" THEN TypeError
  ELSE IF a.t = "object" THEN Coalesce(Get(a.v, "id"), Str(<<>>)) ELSE Str(<<>>)

ChannelOfBareString(a) ==
  IF a.t = "string" THEN a
  ELSE IF a.t = "object" THEN Coalesce(Get(a.v, "id"), Str(<<>>)) ELSE Str(<<>>)

\* typeof a === 'object' && a !== null ? (a.id ?? '') : ''
ChannelOf(a) ==
  IF a.t = "object" THEN Coalesce(Get(a.v, "id"), Str(<<>>)) ELSE Str(<<>>)

SlackMessage(match) ==
  [text |-> Coalesce(Get(match, "text"), Str(<<>>)),
   author |-> Coalesce(Get(match, "user"), Str(<<>>)),
   channel |-> ChannelOf(Get(match, "channel")),
   timestamp |-> Coalesce(Get(match, "ts"), Str(<<>>))]

MapMatchesReversed(matches) ==
  [i \in 1..Len(matches) |-> SlackMessage(matches[Len(matches) + 1 - i])]

\* matches.map(...)
MapMatches(matches) == [i \in 1..Len(matches) |-> SlackMessage(matches[i])]

\* response.response_metadata?.next_cursor
NextCursorOf(response) ==
  LET meta == Get(response, "response_metadata")
  IN IF meta.t \in {"undefined", "null"} THEN Undefined ELSE Get(meta.v, "next_cursor")

\* a callback that throws makes map, and with it the search, throw
Thrown(results) ==
  \E i \in 1..Len(results) :
    \E k \in {"text", "author", "channel", "timestamp"} : results[i][k] = TypeError

Resolved(value) == [kind |-> "resolved", value |-> value]
Rejected(error) == [kind |-> "rejected", error |-> error]

\* !(response.ok && response.messages)
IsFailure(response) ==
  ~(Truthy(Get(response, "ok")) /\ Truthy(Get(response, "messages")))

FailureResultWithCursor(response) ==
  Resolved(Merge(Field("results", Array(<<>>)),
                 Spread(Truthy(NextCursorOf(response)),
                        Field("nextCursor", NextCursorOf(response)))))

\* return { results: [] }
FailureResult(response) == Resolved(Field("results", Array(<<>>)))

ResultSetAnyCursor(results, nextCursor) ==
  IF nextCursor.t # "undefined"
  THEN Merge(Field("results", Array(results)), Field("nextCursor", nextCursor))
  ELSE Field("results", Array(results))

\* nextCursor ? { results, nextCursor } : { results }
ResultSet(results, nextCursor) ==
  IF Truthy(nextCursor)
  THEN Merge(Field("results", Array(results)), Field("nextCursor", nextCursor))
  ELSE Field("results", Array(results))

SearchResultThrowing(response) ==
  IF ~Truthy(Get(response, "ok")) THEN Rejected([t |-> "Error", message |-> "Slack API error"])
  ELSE IF IsFailure(response) THEN FailureResult(response)
  ELSE LET matches == Coalesce(Get(Get(response, "messages").v, "matches"), Array(<<>>)).v
           results == MapMatches(matches)
       IN IF Thrown(results) THEN Rejected(TypeError)
          ELSE Resolved(ResultSet(results, NextCursorOf(response)))

\* what executeSearch does once the call has resolved with response
SearchResult(response) ==
  IF IsFailure(response) THEN FailureResult(response)
  ELSE LET matches == Coalesce(Get(Get(response, "messages").v, "matches"), Array(<<>>)).v
           results == MapMatches(matches)
       IN IF Thrown(results) THEN Rejected(TypeError)
          ELSE Resolved(ResultSet(results, NextCursorOf(response)))

\* ------------------------------------------------------------------------
\* Tool handlers: the response payload
\* ------------------------------------------------------------------------
\* A JSON text is a sequence of pieces: the punctuation JSON.stringify
\* writes, and the characters of the strings it quotes.
RECURSIVE Escape(_)
Escape(s) ==
  IF s = <<>> THEN <<>>
  ELSE (IF Head(s) = "\"" THEN <<"\\", "\"">>
        ELSE IF Head(s) = "\\" THEN <<"\\", "\\">>
        ELSE <<Head(s)>>) \o Escape(Tail(s))

Quote(a) == <<"\"">> \o Escape(a.v) \o <<"\"">>

\* one record of the results array, indented by six spaces
StringifyMessage(m) ==
  <<"{", "\n      ", "\"text\": ">> \o Quote(m.text)
    \o <<",", "\n      ", "\"author\": ">> \o Quote(m.author)
    \o <<",", "\n      ", "\"channel\": ">> \o Quote(m.channel)
    \o <<",", "\n      ", "\"timestamp\": ">> \o Quote(m.timestamp)
    \o <<"\n    ", "}">>

RECURSIVE StringifyMessages(_)
StringifyMessages(ms) ==
  IF ms = <<>> THEN <<>>
  ELSE <<"\n    ">> \o StringifyMessage(Head(ms))
    \o (IF Tail(ms) = <<>> THEN <<>> ELSE <<",">>) \o StringifyMessages(Tail(ms))

StringifyNullCursor(value) ==
  <<"{", "\n  ", "\"results\": ">>
    \o (IF value["results"].v = <<>> THEN <<"[]">>
        ELSE <<"[">> \o StringifyMessages(value["results"].v) \o <<"\n  ", "]">>)
    \o (IF "nextCursor" \in DOMAIN value
          THEN <<",", "\n  ", "\"nextCursor\": ">> \o Quote(value["nextCursor"])
          ELSE <<",", "\n  ", "\"nextCursor\": ", "null">>)
    \o <<"\n", "}">>

\* JSON.stringify(results, null, 2)
Stringify(value) ==
  <<"{", "\n  ", "\"results\": ">>
    \o (IF value["results"].v = <<>> THEN <<"[]">>
        ELSE <<"[">> \o StringifyMessages(value["results"].v) \o <<"\n  ", "]">>)
    \o (IF "nextCursor" \in DOMAIN value
          THEN <<",", "\n  ", "\"nextCursor\": ">> \o Quote(value["nextCursor"])
          ELSE <<>>)
    \o <<"\n", "}">>

\* { content: [{ type: 'text', text: JSON.stringify(results, null, 2) }] }
ToolResult(value) ==
  Field("content", Array(<<[type |-> "text", text |-> Stringify(value)]>>))

\* ------------------------------------------------------------------------
\* Configuration, the SlackClient constructor and the MCP server
\* ------------------------------------------------------------------------
\* new Error(message)
Error(message) == [t |-> "Error", message |-> message]
\* how a synchronous call ends
Return(value) == [kind |-> "returned", value |-> value]
Throw(error) == [kind |-> "thrown", error |-> error]

NaN == [t |-> "number", nan |-> TRUE]
IsNaN(a) == a.t = "number" /\ "nan" \in DOMAIN a

WhiteSpace == {" ", "\t", "\n"}
RECURSIVE TrimStart(_)
TrimStart(s) ==
  IF s # <<>> /\ Head(s) \in WhiteSpace THEN TrimStart(Tail(s)) ELSE s
RECURSIVE TrimEnd(_)
TrimEnd(s) ==
  IF s # <<>> /\ s[Len(s)] \in WhiteSpace THEN TrimEnd(SubSeq(s, 1, Len(s) - 1)) ELSE s

\* String.prototype.trim
Trim(s) == TrimEnd(TrimStart(s))

Digits == {"0", "1", "2", "3", "4", "5", "6", "7", "8", "9"}
DigitValue(c) == CHOOSE d \in 0..9 : ToString(d) = c
\* the value of the longest run of digits s starts with, after acc
RECURSIVE DigitsValue(_, _)
DigitsValue(s, acc) ==
  IF s # <<>> /\ Head(s) \in Digits
  THEN DigitsValue(Tail(s), 10 * acc + DigitValue(Head(s))) ELSE acc

\* Number.parseInt(s, 10): leading white space and a sign are skipped, the
\* digits that follow are read, and without a digit the result is NaN
ParseInt(s) ==
  LET t == TrimStart(s)
      signed == t # <<>> /\ Head(t) \in {"+", "-"}
      d == IF signed THEN Tail(t) ELSE t
  IN IF d = <<>> \/ Head(d) \notin Digits THEN NaN
     ELSE IF signed /\ Head(t) = "-" THEN Int10(0 - DigitsValue(d, 0))
     ELSE Int10(DigitsValue(d, 0))

validateConfigNoTrim(env) ==
  LET slackBotToken == Get(env, "SLACK_BOT_TOKEN")
      portStr == Get(env, "PORT")
  IN IF ~Truthy(slackBotToken)
     THEN Throw(Error("SLACK_BOT_TOKEN environment variable is required"))
     ELSE Return([slackBotToken |-> slackBotToken,
                  port |-> IF Truthy(portStr) THEN ParseInt(portStr.v)
                           ELSE Int10(DEFAULT_PORT)])

\* validateConfig reads process.env
validateConfig(env) ==
  LET raw == Get(env, "SLACK_BOT_TOKEN")
      \* process.env['SLACK_BOT_TOKEN']?.trim()
      slackBotToken == IF raw.t = "undefined" THEN Undefined ELSE Str(Trim(raw.v))
      portStr == Get(env, "PORT")
  IN IF ~Truthy(slackBotToken)
     THEN Throw(Error("SLACK_BOT_TOKEN environment variable is required"))
     ELSE Return([slackBotToken |-> slackBotToken,
                  port |-> IF Truthy(portStr) THEN ParseInt(portStr.v)
                           ELSE Int10(DEFAULT_PORT)])

\* new WebClient(token)
WebClient(token) == [token |-> token]

NewSlackClientUnchecked(token) == Return([client |-> WebClient(token)])

\* new SlackClient(token)
NewSlackClient(token) ==
  IF ~Truthy(token) THEN Throw(Error("Slack bot token is required"))
  ELSE Return([client |-> WebClient(token)])

SERVER_NAME == "slack-mcp"
SERVER_VERSION == "1.0.0"

\* server.registerTool(name, { description, inputSchema }, handler)
Registration(name, inputSchema, handler) ==
  [name |-> name, inputSchema |-> inputSchema, handler |-> handler]

createSlackMcpServerSameSchema(botToken) ==
  LET slackClient == NewSlackClient(botToken)
  IN IF slackClient.kind = "thrown" THEN slackClient
     ELSE Return([name |-> SERVER_NAME, version |-> SERVER_VERSION,
                  slackClient |-> slackClient.value,
                  tools |-> <<Registration("search_messages", "search_messages",
                                           "search_messages"),
                              Registration("search_in_channel", "search_messages",
                                           "search_in_channel")>>])

\* createSlackMcpServer(botToken): the McpServer is constructed first, then
\* the SlackClient, whose constructor may throw, then the two tools are
\* registered
createSlackMcpServer(botToken) ==
  LET slackClient == NewSlackClient(botToken)
  IN IF slackClient.kind = "thrown" THEN slackClient
     ELSE Return([name |-> SERVER_NAME, version |-> SERVER_VERSION,
                  slackClient |-> slackClient.value,
                  tools |-> <<Registration("search_messages", "search_messages",
                                           "search_messages"),
                              Registration("search_in_channel", "search_in_channel",
                                           "search_in_channel")>>])

\* the keys a schema does not mark optional: those whose absence it rejects
RequiredKeys(schema) ==
  {k \in SchemaKeys(schema) :
     \E i \in 1..Len(SchemaIssues(schema, EmptyObject)) :
       SchemaIssues(schema, EmptyObject)[i].path = k}

\* the answer to tools/list
ListTools(server) ==
  [i \in 1..Len(server.tools) |->
     [name |-> server.tools[i].name,
      properties |-> SchemaKeys(server.tools[i].inputSchema),
      required |-> RequiredKeys(server.tools[i].inputSchema)]]

\* ------------------------------------------------------------------------
\* Inputs
\* ------------------------------------------------------------------------
Tools == {"search_messages", "search_in_channel"}

\* the objects that carry key k with a value of S, or do not carry it
Optional(k, S) == {EmptyObject} \cup {Field(k, a) : a \in S}

QueryTexts ==
  {Str(<<"q">>), Str(<<"b", "u", "g", " ", "f", "i", "x">>), Str(<<"\"", "p", "\"">>)}
ChannelIds == {Str(<<"C", "4">>)}
Dates == {Str(<<>>), Str(<<"d", "1">>)}
UserIds == {Str(<<>>), Str(<<"U", "7">>)}
Cursors == {Str(<<>>), Str(<<"n", "1">>)}
Booleans == {Bool(FALSE), Bool(TRUE)}
Limits ==
  {Undefined, Null, Str(<<"5">>), Num(-10), Num(0), Num(5), Num(10), Num(105), Num(200),
   Num(1000), Num(1005), Num(1010)}

\* payloads that vary query, channel_id and limit
LimitPayloads ==
  {Merge(q, Merge(c, Merge(l, r))) :
     q \in Optional("query", QueryTexts \cup {Str(<<>>), Null}),
     c \in Optional("channel_id", ChannelIds \cup {Str(<<>>)}),
     l \in Optional("limit", Limits),
     r \in Optional("has_reactions", {Bool(TRUE)})}

\* payloads that vary the filters
FilterPayloads ==
  {Merge(q, Merge(c, Merge(f, Merge(t, Merge(u, Merge(r, Merge(h, Merge(l, n)))))))) :
     q \in {Field("query", a) : a \in QueryTexts},
     c \in Optional("channel_id", ChannelIds),
     f \in Optional("from_date", Dates),
     t \in Optional("to_date", Dates),
     u \in Optional("user_id", UserIds),
     r \in Optional("has_reactions", Booleans),
     h \in Optional("has_threads", Booleans),
     l \in Optional("limit", {Num(50)}),
     n \in Optional("cursor", {Str(<<"n", "1">>)})}

RequestPayloads == LimitPayloads \cup FilterPayloads

\* the payloads of the whole pipeline
PipelinePayloads ==
  {Merge(q, Merge(c, Merge(l, Merge(n, Merge(f, Merge(r, x)))))) :
     q \in Optional("query", {Str(<<>>), Str(<<"q">>)}),
     c \in Optional("channel_id", ChannelIds),
     l \in Optional("limit", {Num(10), Num(1000), Num(1010)}),
     n \in Optional("cursor", Cursors),
     f \in Optional("from_date", {Str(<<"d", "1">>)}),
     r \in Optional("has_reactions", Booleans),
     x \in Optional("exclude_bots", {Bool(TRUE)})}

\* raw matches: every field absent, undefined, null or a string, and the
\* channel also an object with or without an id
RawChannels ==
  {Str(<<"C", "4">>), Obj(EmptyObject), Obj(Field("id", Undefined)),
   Obj(Field("id", Str(<<"C", "4">>))), Obj(Field("id", Str(<<>>)))}

RawMatches ==
  {Merge(a, Merge(b, Merge(c, d))) :
     a \in Optional("text", {Undefined, Null, Str(<<"h", "i">>)}),
     b \in Optional("user", {Undefined, Null, Str(<<"U", "7">>)}),
     c \in Optional("channel", {Undefined, Null} \cup RawChannels),
     d \in Optional("ts", {Null, Str(<<"1", ".", "2">>)})}

\* the matches the longer lists are made of
ListedMatches ==
  {EmptyObject,
   [text |-> Str(<<"h", "i">>), user |-> Str(<<"U", "7">>),
    channel |-> Obj(Field("id", Str(<<"C", "4">>))), ts |-> Str(<<"1", ".", "2">>)],
   [text |-> Str(<<"y", "\"", "\\">>), user |-> Null,
    channel |-> Obj(Field("id", Str(<<"C", "5">>))), ts |-> Str(<<"3", ".", "4">>)]}

MatchLists ==
  {<<m>> : m \in RawMatches}
    \cup UNION {[1..n -> ListedMatches] : n \in 0..MaxMatches}

Metadata ==
  Optional("response_metadata",
           {Obj(EmptyObject), Obj(Field("next_cursor", Str(<<>>))),
            Obj(Field("next_cursor", Str(<<"n", "2">>)))})

MessagesOf(Lists) ==
  Optional("messages", {Null, Obj(EmptyObject)} \cup {Obj(Field("matches", Array(l))) : l \in Lists})

EnvelopesOf(Lists) ==
  {Merge(o, Merge(m, c)) :
     o \in {Field("ok", b) : b \in Booleans}, m \in MessagesOf(Lists), c \in Metadata}

ResponseEnvelopes == EnvelopesOf(MatchLists)
PipelineEnvelopes == EnvelopesOf({<<>>, <<CHOOSE m \in ListedMatches : m # EmptyObject>>})

\* { ok: true, messages: { matches: [] } }
EmptyPage == {[ok |-> Bool(TRUE), messages |-> Obj(Field("matches", Array(<<>>)))]}
\* { query: 'q', channel_id: 'C4' }
ChannelQuery == {[query |-> Str(<<"q">>), channel_id |-> Str(<<"C", "4">>)]}

Errors ==
  {[t |-> "Error", message |-> "socket hang up"], [t |-> "Error", message |-> "ratelimited"]}

\* ------------------------------------------------------------------------
\* State
\* ------------------------------------------------------------------------
VARIABLES
  pc,        \* "idle", "awaiting" (the outbound call is in flight) or "done"
  tool,      \* the tool that was invoked
  input,     \* the payload it was invoked with
  params,    \* the params the handler handed to the client
  query,     \* the translated query string
  calls,     \* the arguments of every client.search.messages call, in order
  response,  \* the envelope the call resolved with
  fault,     \* the error the call rejected with
  result,    \* what the client returned to the handler
  outcome,   \* what the invocation returned to the invoking layer
  client,    \* the SlackClient the handlers were created with
  flights,   \* the invocations in flight on one server, each with its own state
  wire,      \* the outbound calls of the flights, in the order they were issued
  env,       \* process.env
  config,    \* how validateConfig ended at startup
  app,       \* the express application, once created
  constructed,  \* the token of a direct new SlackClient(token), and how it ended
  mcpServers,   \* every McpServer constructed, in order
  slackClients, \* every SlackClient constructed, in order
  connections,  \* the servers connected to a transport
  answers    \* the answers of GET /mcp/slack/sse, in order

pipeline == <<pc, tool, input, params, query, calls, response, fault, result, outcome>>
concurrent == <<flights, wire>>
application ==
  <<env, config, app, constructed, mcpServers, slackClients, connections, answers>>
vars == <<pipeline, client, concurrent, application>>

None == [kind |-> "none"]

\* the token the server was created with
BotToken == Str(<<"x", "o", "x", "b">>)

\* nothing has been invoked, requested or started yet
InitPipeline ==
  /\ pc = "idle"
  /\ tool = "none"
  /\ input = EmptyObject
  /\ params = EmptyObject
  /\ query = <<>>
  /\ calls = <<>>
  /\ response = EmptyObject
  /\ fault = None
  /\ result = None
  /\ outcome = None

Flights == 1..MaxFlights
Idle ==
  [pc |-> "idle", tool |-> "none", input |-> EmptyObject, params |-> EmptyObject,
   settled |-> None, outcome |-> None, after |-> {}]

InitConcurrent ==
  /\ flights = [i \in Flights |-> Idle]
  /\ wire = <<>>

InitApplication ==
  /\ env = EmptyObject
  /\ config = None
  /\ app = None
  /\ constructed = None
  /\ mcpServers = <<>>
  /\ slackClients = <<>>
  /\ connections = <<>>
  /\ answers = <<>>

\* createSlackMcpServer(botToken) has run: one SlackClient, no invocation yet
Init ==
  /\ InitPipeline
  /\ client = NewSlackClient(BotToken).value
  /\ InitConcurrent
  /\ InitApplication

\* A tools/call request: the registered inputSchema is applied first; the
\* handler runs only on a payload that passes, up to its await of the call.
Invoke(t, payload) ==
  /\ pc = "idle"
  /\ tool' = t
  /\ input' = payload
  /\ LET issues == SchemaIssues(t, payload)
     IN IF Len(issues) > 0
        THEN /\ pc' = "done"
             /\ outcome' = [kind |-> "invalid", issues |-> issues]
             /\ UNCHANGED <<params, query, calls>>
        ELSE LET p == HandlerParams(t, Parsed(t, payload))
                 q == ClientQuery(t, p)
             IN /\ pc' = "awaiting"
                /\ params' = p
                /\ query' = q
                /\ calls' = Append(calls, SearchArguments(q, Get(p, "limit"), Get(p, "cursor")))
                /\ UNCHANGED outcome
  /\ UNCHANGED <<response, fault, result>>
  /\ UNCHANGED <<client, concurrent, application>>

GatewayResolveWritesParams(envelope) ==
  /\ pc = "awaiting"
  /\ pc' = "done"
  /\ response' = envelope
  /\ result' = SearchResult(envelope)
  /\ outcome' = IF result'.kind = "resolved"
                THEN Resolved(ToolResult(result'.value)) ELSE result'
  /\ params' = Merge(params, Spread(Truthy(NextCursorOf(envelope)),
                                    Field("cursor", NextCursorOf(envelope))))
  /\ UNCHANGED <<tool, input, query, calls, fault>>
  /\ UNCHANGED <<client, concurrent, application>>

\* The call resolves: executeSearch normalizes the envelope and the handler
\* wraps what the client returned.
GatewayResolve(envelope) ==
  /\ pc = "awaiting"
  /\ pc' = "done"
  /\ response' = envelope
  /\ result' = SearchResult(envelope)
  /\ outcome' = IF result'.kind = "resolved"
                THEN Resolved(ToolResult(result'.value)) ELSE result'
  /\ UNCHANGED <<tool, input, params, query, calls, fault>>
  /\ UNCHANGED <<client, concurrent, application>>

GatewayRejectRetry(error) ==
  /\ pc = "awaiting"
  /\ IF Len(calls) < 2
     THEN /\ calls' = Append(calls, calls[1])
          /\ UNCHANGED <<pc, fault, result, outcome>>
     ELSE /\ pc' = "done"
          /\ fault' = error
          /\ result' = Rejected(error)
          /\ outcome' = Rejected(error)
          /\ UNCHANGED calls
  /\ UNCHANGED <<tool, input, params, query, response>>
  /\ UNCHANGED <<client, concurrent, application>>

GatewayRejectSwallowed(error) ==
  /\ pc = "awaiting"
  /\ pc' = "done"
  /\ fault' = error
  /\ result' = FailureResult(EmptyObject)
  /\ outcome' = Resolved(ToolResult(result'.value))
  /\ UNCHANGED <<tool, input, params, query, calls, response>>
  /\ UNCHANGED <<client, concurrent, application>>

\* The call rejects: nothing catches the error on its way out.
GatewayReject(error) ==
  /\ pc = "awaiting"
  /\ pc' = "done"
  /\ fault' = error
  /\ result' = Rejected(error)
  /\ outcome' = Rejected(error)
  /\ UNCHANGED <<tool, input, params, query, calls, response>>
  /\ UNCHANGED <<client, concurrent, application>>

Next ==
  \/ pc = "idle" /\ \E t \in Tools, payload \in PipelinePayloads : Invoke(t, payload)
  \/ pc = "awaiting" /\ \E envelope \in PipelineEnvelopes : GatewayResolve(envelope)
  \/ pc = "awaiting" /\ \E error \in Errors : GatewayReject(error)

Spec == Init /\ [][Next]_vars

\* the awaited call settles: it resolves with an envelope or rejects
Settle ==
  \/ \E envelope \in PipelineEnvelopes : GatewayResolve(envelope)
  \/ \E error \in Errors : GatewayReject(error)

\* the pipeline when every call that was issued settles
SpecSettling == Init /\ [][Next]_vars /\ WF_vars(Settle)

\* every payload of the request side, one envelope
NextRequest ==
  \/ pc = "idle" /\ \E t \in Tools, payload \in RequestPayloads : Invoke(t, payload)
  \/ pc = "awaiting" /\ \E envelope \in EmptyPage : GatewayResolve(envelope)
  \/ pc = "awaiting" /\ \E error \in Errors : GatewayReject(error)

SpecRequest == Init /\ [][NextRequest]_vars

\* every envelope of the response side, one payload per tool
NextResponse ==
  \/ pc = "idle" /\ \E t \in Tools, payload \in ChannelQuery : Invoke(t, payload)
  \/ pc = "awaiting" /\ \E envelope \in ResponseEnvelopes : GatewayResolve(envelope)
  \/ pc = "awaiting" /\ \E error \in Errors : GatewayReject(error)

SpecResponse == Init /\ [][NextResponse]_vars

\* ------------------------------------------------------------------------
\* Several invocations on one server: the handlers share the one SlackClient
\* ------------------------------------------------------------------------
ConcurrentPayloads ==
  {EmptyObject,
   [query |-> Str(<<"q">>)],
   [query |-> Str(<<"q">>), cursor |-> Str(<<"n", "2">>)],
   [query |-> Str(<<"b">>), channel_id |-> Str(<<"C", "4">>), has_threads |-> Bool(TRUE)]}

ConcurrentEnvelopes ==
  {[ok |-> Bool(FALSE)],
   [ok |-> Bool(TRUE),
    messages |-> Obj(Field("matches", Array(<<[text |-> Str(<<"h", "i">>)]>>))),
    response_metadata |-> Obj(Field("next_cursor", Str(<<"n", "2">>)))]}

\* the flights that have ended
Ended == {j \in Flights : flights[j].pc = "done"}
\* the flight that issued the latest outbound call
LatestParams == IF wire = <<>> THEN EmptyObject ELSE flights[wire[Len(wire)].flight].params

\* the continuation tokens of the flights that resolved
KeptCursors ==
  {NextCursorOf(flights[j].settled.value) :
     j \in {k \in Ended : flights[k].settled.kind = "resolved"
                            /\ Truthy(NextCursorOf(flights[k].settled.value))}}

InvokeFlightKeptCursor(i, t, payload) ==
  /\ flights[i].pc = "idle"
  /\ LET issues == SchemaIssues(t, payload)
     IN IF Len(issues) > 0
        THEN /\ flights' = [flights EXCEPT ![i] =
                  [pc |-> "done", tool |-> t, input |-> payload, params |-> EmptyObject,
                   settled |-> None, outcome |-> [kind |-> "invalid", issues |-> issues],
                   after |-> Ended]]
             /\ UNCHANGED wire
        ELSE LET p == HandlerParams(t, Parsed(t, payload))
                 q == ClientQuery(t, p)
                 cursor == IF "cursor" \in DOMAIN p \/ KeptCursors = {} THEN Get(p, "cursor")
                           ELSE CHOOSE c \in KeptCursors : TRUE
             IN /\ flights' = [flights EXCEPT ![i] =
                     [pc |-> "awaiting", tool |-> t, input |-> payload, params |-> p,
                      settled |-> None, outcome |-> None, after |-> Ended]]
                /\ wire' = Append(wire,
                     [flight |-> i,
                      arguments |-> SearchArguments(q, Get(p, "limit"), cursor)])
  /\ UNCHANGED <<pipeline, client, application>>

InvokeFlightSharedParams(i, t, payload) ==
  /\ flights[i].pc = "idle"
  /\ LET issues == SchemaIssues(t, payload)
     IN IF Len(issues) > 0
        THEN /\ flights' = [flights EXCEPT ![i] =
                  [pc |-> "done", tool |-> t, input |-> payload, params |-> EmptyObject,
                   settled |-> None, outcome |-> [kind |-> "invalid", issues |-> issues],
                   after |-> Ended]]
             /\ UNCHANGED wire
        ELSE LET p == Merge(LatestParams, HandlerParams(t, Parsed(t, payload)))
                 q == ClientQuery(t, p)
             IN /\ flights' = [flights EXCEPT ![i] =
                     [pc |-> "awaiting", tool |-> t, input |-> payload, params |-> p,
                      settled |-> None, outcome |-> None, after |-> Ended]]
                /\ wire' = Append(wire,
                     [flight |-> i,
                      arguments |-> SearchArguments(q, Get(p, "limit"), Get(p, "cursor"))])
  /\ UNCHANGED <<pipeline, client, application>>

\* A tools/call request while others may be in flight: params is a fresh
\* object of this invocation, and the client keeps nothing between calls.
InvokeFlight(i, t, payload) ==
  /\ flights[i].pc = "idle"
  /\ LET issues == SchemaIssues(t, payload)
     IN IF Len(issues) > 0
        THEN /\ flights' = [flights EXCEPT ![i] =
                  [pc |-> "done", tool |-> t, input |-> payload, params |-> EmptyObject,
                   settled |-> None, outcome |-> [kind |-> "invalid", issues |-> issues],
                   after |-> Ended]]
             /\ UNCHANGED wire
        ELSE LET p == HandlerParams(t, Parsed(t, payload))
                 q == ClientQuery(t, p)
             IN /\ flights' = [flights EXCEPT ![i] =
                     [pc |-> "awaiting", tool |-> t, input |-> payload, params |-> p,
                      settled |-> None, outcome |-> None, after |-> Ended]]
                /\ wire' = Append(wire,
                     [flight |-> i,
                      arguments |-> SearchArguments(q, Get(p, "limit"), Get(p, "cursor"))])
  /\ UNCHANGED <<pipeline, client, application>>

\* what the handler returns for what executeSearch returned
HandlerOutcome(searched) ==
  IF searched.kind = "resolved" THEN Resolved(ToolResult(searched.value)) ELSE searched

\* the call of flight i resolves
ResolveFlight(i, envelope) ==
  /\ flights[i].pc = "awaiting"
  /\ flights' = [flights EXCEPT ![i].pc = "done",
                                ![i].settled = Resolved(envelope),
                                ![i].outcome = HandlerOutcome(SearchResult(envelope))]
  /\ UNCHANGED <<wire, pipeline, client, application>>

\* the call of flight i rejects
RejectFlight(i, error) ==
  /\ flights[i].pc = "awaiting"
  /\ flights' = [flights EXCEPT ![i].pc = "done",
                                ![i].settled = Rejected(error),
                                ![i].outcome = Rejected(error)]
  /\ UNCHANGED <<wire, pipeline, client, application>>

NextConcurrent ==
  \/ \E i \in Flights, t \in Tools, payload \in ConcurrentPayloads : InvokeFlight(i, t, payload)
  \/ \E i \in Flights, envelope \in ConcurrentEnvelopes : ResolveFlight(i, envelope)
  \/ \E i \in Flights, error \in Errors : RejectFlight(i, error)

SpecConcurrent == Init /\ [][NextConcurrent]_vars

\* ------------------------------------------------------------------------
\* The process: configuration at startup, the express application and its
\* GET /mcp/slack/sse route, and direct construction of a SlackClient
\* ------------------------------------------------------------------------
EnvTokens ==
  {Str(<<>>), Str(<<" ">>), Str(<<" ", "\t">>), Str(<<"x">>), Str(<<" ", "x", " ">>),
   Str(<<"x", " ", "y">>), Str(<<"\t", "x", "\n">>)}
EnvPorts ==
  {Str(<<>>), Str(<<"8", "0", "8", "0">>), Str(<<"8", "0", "a", "b">>), Str(<<"a", "b", "c">>),
   Str(<<" ", "7">>), Str(<<"-", "1">>), Str(<<"1", "2", ".", "5">>)}
Environments ==
  {Merge(t, p) : t \in Optional("SLACK_BOT_TOKEN", EnvTokens), p \in Optional("PORT", EnvPorts)}
\* the tokens a caller may hand to createApp or to new SlackClient
BotTokens == {Str(<<>>), Str(<<" ">>), Str(<<"x">>)}
\* where setting up a connection may throw outside this repository's code
Failures == {"none", "transport", "connect"}

InitProcess ==
  /\ InitPipeline
  /\ client = NewSlackClient(BotToken).value
  /\ InitConcurrent
  /\ env \in Environments
  /\ config = None
  /\ app = None
  /\ constructed = None
  /\ mcpServers = <<>>
  /\ slackClients = <<>>
  /\ connections = <<>>
  /\ answers = <<>>

\* Run directly: validateConfig() then createApp(config.slackBotToken); a
\* throw of validateConfig ends the process before any application exists.
Start ==
  /\ config = None /\ app = None
  /\ config' = validateConfig(env)
  /\ app' = IF config'.kind = "returned"
            THEN [readsEnv |-> FALSE, slackBotToken |-> config'.value.slackBotToken]
            ELSE app
  /\ UNCHANGED <<env, constructed, mcpServers, slackClients, connections, answers>>
  /\ UNCHANGED <<pipeline, client, concurrent>>

\* createApp(slackBotToken), called by a test or another module
createApp(slackBotToken) ==
  /\ config = None /\ app = None
  /\ app' = [readsEnv |-> FALSE, slackBotToken |-> slackBotToken]
  /\ UNCHANGED <<env, config, constructed, mcpServers, slackClients, connections, answers>>
  /\ UNCHANGED <<pipeline, client, concurrent>>

\* createApp() of the version whose route reads the token from process.env
createAppEnv ==
  /\ config = None /\ app = None
  /\ app' = [readsEnv |-> TRUE]
  /\ UNCHANGED <<env, config, constructed, mcpServers, slackClients, connections, answers>>
  /\ UNCHANGED <<pipeline, client, concurrent>>

\* res.status(status).json({ error })
Answer(status, error) == [status |-> status, error |-> error]
\* the response is left open as the event stream of the transport
Stream == [status |-> 200, stream |-> "/mcp/slack/sse"]

SetUpUncaught(token, fails) ==
  LET made == createSlackMcpServer(token)
  IN IF made.kind = "thrown"
     THEN /\ mcpServers' = Append(mcpServers, [tools |-> <<>>, slackClient |-> 0])
          /\ answers' = answers
          /\ UNCHANGED <<slackClients, connections>>
     ELSE /\ slackClients' = Append(slackClients, made.value.slackClient)
          /\ mcpServers' = Append(mcpServers, [tools |-> made.value.tools,
                                               slackClient |-> Len(slackClients) + 1])
          /\ IF fails # "none"
             THEN /\ answers' = answers
                  /\ UNCHANGED connections
             ELSE /\ connections' = Append(connections, [server |-> Len(mcpServers) + 1])
                  /\ answers' = Append(answers, Stream)

\* try { createSlackMcpServer(token); new SSEServerTransport(...);
\*       await slackServer.connect(transport) } catch { 500 }
SetUp(token, fails) ==
  LET made == createSlackMcpServer(token)
  IN IF made.kind = "thrown"
     THEN /\ mcpServers' = Append(mcpServers, [tools |-> <<>>, slackClient |-> 0])
          /\ answers' = Append(answers, Answer(HTTP_INTERNAL_SERVER_ERROR,
                                               "Failed to initialize Slack MCP server"))
          /\ UNCHANGED <<slackClients, connections>>
     ELSE /\ slackClients' = Append(slackClients, made.value.slackClient)
          /\ mcpServers' = Append(mcpServers, [tools |-> made.value.tools,
                                               slackClient |-> Len(slackClients) + 1])
          /\ IF fails # "none"
             THEN /\ answers' = Append(answers, Answer(HTTP_INTERNAL_SERVER_ERROR,
                                                       "Failed to initialize Slack MCP server"))
                  /\ UNCHANGED connections
             ELSE /\ connections' = Append(connections, [server |-> Len(mcpServers) + 1])
                  /\ answers' = Append(answers, Stream)

\* GET /mcp/slack/sse on the application that was given its token
GetSlackSse(fails) ==
  /\ app # None /\ ~app.readsEnv
  /\ Len(mcpServers) < MaxRequests /\ Len(answers) < MaxRequests
  /\ SetUp(app.slackBotToken, fails)
  /\ UNCHANGED <<env, config, app, constructed>>
  /\ UNCHANGED <<pipeline, client, concurrent>>

\* GET /mcp/slack/sse on the application that reads process.env itself
GetSlackSseEnv(fails) ==
  /\ app # None /\ app.readsEnv
  /\ Len(mcpServers) < MaxRequests /\ Len(answers) < MaxRequests
  /\ LET token == Get(env, "SLACK_BOT_TOKEN")
     IN IF ~Truthy(token)
        THEN /\ answers' = Append(answers,
                    Answer(HTTP_INTERNAL_SERVER_ERROR,
                           "SLACK_BOT_TOKEN environment variable not configured"))
             /\ UNCHANGED <<mcpServers, slackClients, connections>>
        ELSE SetUp(token, fails)
  /\ UNCHANGED <<env, config, app, constructed>>
  /\ UNCHANGED <<pipeline, client, concurrent>>

\* new SlackClient(token), called directly
Construct(token) ==
  /\ constructed = None
  /\ Len(slackClients) < MaxRequests
  /\ constructed' = [token |-> token, ended |-> NewSlackClient(token)]
  /\ slackClients' = IF constructed'.ended.kind = "returned"
                     THEN Append(slackClients, constructed'.ended.value) ELSE slackClients
  /\ UNCHANGED <<env, config, app, mcpServers, connections, answers>>
  /\ UNCHANGED <<pipeline, client, concurrent>>

NextProcess ==
  \/ Start
  \/ \E token \in BotTokens : createApp(token)
  \/ createAppEnv
  \/ \E fails \in Failures : GetSlackSse(fails)
  \/ \E fails \in Failures : GetSlackSseEnv(fails)
  \/ \E token \in BotTokens : Construct(token)

SpecProcess == InitProcess /\ [][NextProcess]_vars

\* ------------------------------------------------------------------------
\* Vocabulary of the properties
\* ------------------------------------------------------------------------
EmptyString == Str(<<>>)
IsString(a) == a.t = "string"
NonEmptyString(a) == a.t = "string" /\ Len(a.v) > 0
Missing(a) == a.t \in {"undefined", "null"}

OccursAt(p, s, i) ==
  /\ i >= 1
  /\ i + Len(p) - 1 <= Len(s)
  /\ SubSeq(s, i, i + Len(p) - 1) = p
Occurrences(p, s) == {i \in 1..Len(s) : OccursAt(p, s, i)}
\* the place of the first occurrence of p in s, 0 when there is none
Pos(p, s) ==
  IF Occurrences(p, s) = {} THEN 0
  ELSE CHOOSE i \in Occurrences(p, s) : \A j \in Occurrences(p, s) : i <= j
IsPrefix(p, s) == OccursAt(p, s, 1) \/ p = <<>>

\* the invocation passed validation and its outbound call was issued
Sent == Len(calls) > 0
SentQuery == calls[1]["query"].v
\* the call resolved with an envelope
Settled == pc = "done" /\ "ok" \in DOMAIN response
Successful == Settled /\ Get(response, "ok") = Bool(TRUE) /\ Get(response, "messages").t = "object"
UpstreamMatches ==
  LET m == Get(Get(response, "messages").v, "matches")
  IN IF m.t = "array" THEN m.v ELSE <<>>
Records == result.value["results"].v
\* the envelope carries a continuation token
TokenCarried ==
  /\ Get(response, "response_metadata").t = "object"
  /\ NonEmptyString(Get(Get(response, "response_metadata").v, "next_cursor"))
CarriedToken == Get(response, "response_metadata").v["next_cursor"]

\* the operators in the order of the contract, and whether the caller's
\* payload asks for each of them
Operators == <<After, Before, From, HasReaction, HasThread, In>>
Requested ==
  <<NonEmptyString(Get(input, "from_date")),
    NonEmptyString(Get(input, "to_date")),
    NonEmptyString(Get(input, "user_id")),
    Get(input, "has_reactions") = Bool(TRUE),
    Get(input, "has_threads") = Bool(TRUE),
    tool = "search_in_channel">>


\* the string filters of the Filter Model, and the clause of the i-th
StringFilters == <<"fromDate", "toDate", "userId">>
ClauseOf(i) == Operators[i] \o params[StringFilters[i]].v

\* { results: [] } returned without an error
NoResults == [kind |-> "resolved", value |-> [results |-> [t |-> "array", v |-> <<>>]]]
\* the envelope signals failure or has no messages
Failed ==
  Settled /\ (Get(response, "ok") = Bool(FALSE) \/ Missing(Get(response, "messages")))
\* ok:true with a matches list that is empty
EmptyMatches ==
  /\ Successful
  /\ "matches" \in DOMAIN response["messages"].v
  /\ response["messages"].v["matches"] = [t |-> "array", v |-> <<>>]

\* the tool was invoked; the schema let the payload through
Invoked == pc # "idle"
Accepted == Invoked /\ outcome.kind # "invalid"
\* every field of the payload but limit satisfies the schema of the tool
ValidApartFromLimit ==
  /\ NonEmptyString(Get(input, "query"))
  /\ tool = "search_in_channel" => NonEmptyString(Get(input, "channel_id"))
  /\ \A k \in {"cursor", "from_date", "to_date", "user_id"} :
       Get(input, k).t \in {"undefined", "string"}
  /\ \A k \in {"has_reactions", "has_threads"} : Get(input, k).t \in {"undefined", "boolean"}
LimitMessages ==
  IF outcome.kind # "invalid" THEN {}
  ELSE {outcome.issues[i].message :
          i \in {j \in 1..Len(outcome.issues) : outcome.issues[j].path = "limit"}}


\* ------------------------------------------------------------------------
\* C1: whatever the payload, every clause in the translated query string
\* comes after the query text, and the clauses come in the order
\* after: < before: < from: < has:reaction < has:thread < in:.
\* ------------------------------------------------------------------------
C1_ClauseOrderFixed ==
  Sent =>
    /\ IsPrefix(input["query"].v, SentQuery)
    /\ \A i \in 1..6 :
         Requested[i] => Pos(Operators[i], SentQuery) > Len(input["query"].v)
    /\ \A i \in 1..6 : \A j \in 1..6 :
         (i < j /\ Pos(Operators[i], SentQuery) > 0 /\ Pos(Operators[j], SentQuery) > 0)
           => Pos(Operators[i], SentQuery) < Pos(Operators[j], SentQuery)

C1_Witness ==
  /\ Sent
  /\ \A i \in 1..6 : Requested[i] /\ Pos(Operators[i], SentQuery) > 0

\* ------------------------------------------------------------------------
\* C2 as stated: the string holds ' after:<fromDate>' exactly when fromDate
\* is present in the Filter Model, and likewise ' before:<toDate>' and
\* ' from:<userId>'.
\* ------------------------------------------------------------------------
C2_ClausePerPresentFilter ==
  Sent =>
    /\ ("fromDate" \in DOMAIN params) <=> (Pos(After, SentQuery) > 0)
    /\ ("toDate" \in DOMAIN params) <=> (Pos(Before, SentQuery) > 0)
    /\ ("userId" \in DOMAIN params) <=> (Pos(From, SentQuery) > 0)

\* C2 amended: the string starts with the query text and holds the clause
\* of a string filter, once, exactly when that filter is present and is not
\* the empty string; a filter present as the empty string adds nothing, and
\* with no filter present the string is the query text.
C2_ClausePerNonEmptyFilter ==
  Sent =>
    /\ IsPrefix(params["query"].v, SentQuery)
    /\ \A i \in 1..3 :
         IF StringFilters[i] \in DOMAIN params /\ Len(params[StringFilters[i]].v) > 0
         THEN /\ Cardinality(Occurrences(Operators[i], SentQuery)) = 1
              /\ OccursAt(ClauseOf(i), SentQuery, Pos(Operators[i], SentQuery))
         ELSE Occurrences(Operators[i], SentQuery) = {}
    /\ (DOMAIN params \subseteq {"query", "limit", "cursor"}) => SentQuery = params["query"].v
    /\ (\A i \in 1..6 : ~Requested[i]) => SentQuery = params["query"].v

C2_Witness ==
  /\ Sent
  /\ "fromDate" \in DOMAIN params /\ params["fromDate"] = EmptyString
  /\ "userId" \in DOMAIN params /\ Len(params["userId"].v) > 0
  /\ "toDate" \notin DOMAIN params
  /\ Pos(After, SentQuery) = 0
  /\ Pos(From, SentQuery) > 0

\* ------------------------------------------------------------------------
\* C3: normalizing a successful envelope never throws, and every record it
\* returns has exactly the four fields text, author, channel, timestamp,
\* each a string, the empty string where the upstream datum is missing.
\* ------------------------------------------------------------------------
C3_RecordsAreTotal ==
  Successful =>
    /\ result.kind = "resolved"
    /\ outcome.kind = "resolved"
    /\ \A i \in 1..Len(Records) :
         /\ DOMAIN Records[i] = {"text", "author", "channel", "timestamp"}
         /\ \A k \in DOMAIN Records[i] : IsString(Records[i][k])
    /\ \A i \in 1..Len(UpstreamMatches) :
         LET m == UpstreamMatches[i]
         IN /\ Missing(Get(m, "text")) => Records[i].text = EmptyString
            /\ Missing(Get(m, "user")) => Records[i].author = EmptyString
            /\ Missing(Get(m, "ts")) => Records[i].timestamp = EmptyString
            /\ Missing(Get(m, "channel")) => Records[i].channel = EmptyString
            /\ (Get(m, "channel").t = "object" /\ Missing(Get(Get(m, "channel").v, "id")))
                 => Records[i].channel = EmptyString

C3_Witness ==
  /\ Successful
  /\ Len(UpstreamMatches) = 1
  /\ "channel" \in DOMAIN UpstreamMatches[1] /\ UpstreamMatches[1]["channel"] = Null
  /\ "text" \in DOMAIN UpstreamMatches[1] /\ UpstreamMatches[1]["text"] = Null
  /\ "user" \notin DOMAIN UpstreamMatches[1]
  /\ result.kind = "resolved"
  /\ Records[1] = [text |-> EmptyString, author |-> EmptyString,
                   channel |-> EmptyString, timestamp |-> EmptyString]

C5_FailureSameAsEmptyMatches ==
  /\ Failed => (result = NoResults /\ outcome.kind = "resolved")
  /\ EmptyMatches => result = NoResults

\* C5 amended: an envelope with ok = false or without messages gives
\* { results: [] } with no nextCursor and no error, for both tools; that is
\* the value an ok:true envelope with an empty matches list gives when it
\* carries no continuation token.
C5_FailureSameAsEmptyPage ==
  /\ Failed => (result = NoResults /\ outcome.kind = "resolved")
  /\ (EmptyMatches /\ ~TokenCarried) => result = NoResults

C5_Witness ==
  /\ Failed
  /\ Get(response, "ok") = Bool(FALSE)
  /\ Get(response, "messages").t = "object"
  /\ TokenCarried
  /\ tool = "search_in_channel"
  /\ result = NoResults

C7_OrderPreserved ==
  (Successful /\ result.kind = "resolved") =>
    /\ Len(Records) = Len(UpstreamMatches)
    /\ \A i \in 1..Len(UpstreamMatches) : Records[i] = SlackMessage(UpstreamMatches[i])

C7_Witness ==
  /\ Successful
  /\ result.kind = "resolved"
  /\ Len(UpstreamMatches) = MaxMatches
  /\ Len(Records) = MaxMatches
  /\ Records[1] # Records[2]
  /\ UpstreamMatches[1] = EmptyObject

\* ------------------------------------------------------------------------
\* C8: a payload that is valid apart from limit is accepted exactly when
\* limit is absent or an integer in 1..100; a limit below 1, above 100 or
\* not an integer is rejected with the message of that check.
\* ------------------------------------------------------------------------
C8_LimitRange ==
  (Invoked /\ ValidApartFromLimit) =>
    LET l == Get(input, "limit")
    IN /\ Accepted <=>
            (l.t = "undefined" \/ (l.t = "number" /\ l.v % 10 = 0 /\ l.v >= 10 /\ l.v <= 1000))
       /\ (l.t = "number" /\ l.v < 10) => <<"Limit must be at least ", "1">> \in LimitMessages
       /\ (l.t = "number" /\ l.v > 1000) => <<"Limit cannot exceed ", "100">> \in LimitMessages
       /\ (l.t = "number" /\ l.v % 10 # 0) => <<"Limit must be an integer">> \in LimitMessages

C8_Witness ==
  /\ Invoked
  /\ ValidApartFromLimit
  /\ Get(input, "limit") = Num(1010)
  /\ ~Accepted
  /\ LimitMessages = {<<"Limit cannot exceed ", "100">>}

\* ------------------------------------------------------------------------
\* C9: the count of the outbound call is the supplied limit, and 20 when
\* no limit was supplied, for both tools.
\* ------------------------------------------------------------------------
C9_CountIsLimitOrDefault ==
  Sent =>
    calls[1]["count"] =
      (IF Get(input, "limit").t = "undefined" THEN Num(200) ELSE input["limit"])

C9_Witness ==
  /\ Sent
  /\ "limit" \notin DOMAIN input
  /\ tool = "search_in_channel"
  /\ calls[1]["count"] = Num(200)

\* ------------------------------------------------------------------------
\* C10: an invocation whose query is missing or the empty string is
\* rejected by the schema and makes no call to the search gateway.
\* ------------------------------------------------------------------------
C10_NoCallWithoutQuery ==
  (Invoked /\ ~NonEmptyString(Get(input, "query"))) =>
    /\ pc = "done"
    /\ outcome.kind = "invalid"
    /\ \E i \in 1..Len(outcome.issues) : outcome.issues[i].path = "query"
    /\ calls = <<>>

C10_Witness ==
  /\ Invoked
  /\ "query" \in DOMAIN input /\ input["query"] = EmptyString
  /\ outcome.kind = "invalid"
  /\ outcome.issues[1] = [path |-> "query", message |-> <<"Query cannot be empty">>]
  /\ calls = <<>>


\* the issues the schema raised on the field path
IssuesAt(path) ==
  IF outcome.kind # "invalid" THEN {}
  ELSE {outcome.issues[i].message :
          i \in {j \in 1..Len(outcome.issues) : outcome.issues[j].path = path}}

\* ------------------------------------------------------------------------
\* C11: the channel-scoped schema rejects a payload whose channel_id is
\* missing or the empty string, the empty string with the message
\* 'Channel ID is required', and accepts a payload that carries a non-empty
\* query, a non-empty channel_id and nothing else.
\* ------------------------------------------------------------------------
C11_ChannelIdRequired ==
  (Invoked /\ tool = "search_in_channel") =>
    /\ ~NonEmptyString(Get(input, "channel_id")) =>
         (outcome.kind = "invalid" /\ IssuesAt("channel_id") # {} /\ calls = <<>>)
    /\ Get(input, "channel_id") = EmptyString =>
         IssuesAt("channel_id") = {<<"Channel ID is required">>}
    /\ (DOMAIN input = {"query", "channel_id"}
          /\ NonEmptyString(input["query"]) /\ NonEmptyString(input["channel_id"]))
         => (Accepted /\ Sent)

C11_Witness ==
  /\ Invoked
  /\ tool = "search_in_channel"
  /\ NonEmptyString(Get(input, "query"))
  /\ "channel_id" \in DOMAIN input /\ input["channel_id"] = EmptyString
  /\ outcome.kind = "invalid"
  /\ outcome.issues = <<[path |-> "channel_id", message |-> <<"Channel ID is required">>]>>

\* the query string the workspace-wide tool translates the payload to
WorkspaceQuery ==
  ClientQuery("search_messages",
              HandlerParams("search_messages", Parsed("search_messages", input)))

\* ------------------------------------------------------------------------
\* C12: the query string of the channel-scoped tool is the string the
\* workspace-wide tool gives for the same filters, followed by
\* ' in:<channelId>' as the last clause; the workspace-wide tool emits no
\* in: clause.
\* ------------------------------------------------------------------------
C12_ChannelClauseLast ==
  Sent =>
    IF tool = "search_in_channel"
    THEN /\ SentQuery = WorkspaceQuery \o In \o input["channel_id"].v
         /\ Cardinality(Occurrences(In, SentQuery)) = 1
         /\ Pos(In, SentQuery) = Len(SentQuery) - Len(In \o input["channel_id"].v) + 1
    ELSE /\ SentQuery = WorkspaceQuery
         /\ Occurrences(In, SentQuery) = {}

C12_Witness ==
  /\ Sent
  /\ tool = "search_in_channel"
  /\ Requested[3] /\ Requested[4]
  /\ SentQuery = input["query"].v \o From \o input["user_id"].v \o HasReaction
                   \o In \o input["channel_id"].v

\* the payload without the field k
Without(k) == [x \in DOMAIN input \ {k} |-> input[x]]
QueryWithout(k) == ClientQuery(tool, HandlerParams(tool, Parsed(tool, Without(k))))

\* ------------------------------------------------------------------------
\* C13: hasReactions = false gives the query string that omitting
\* hasReactions gives, with no has:reaction clause; hasReactions = true adds
\* exactly one ' has:reaction'.  The same holds of hasThreads and
\* ' has:thread'.
\* ------------------------------------------------------------------------
C13_FalseFlagIsOmittedFlag ==
  Sent =>
    /\ Get(params, "hasReactions") = Bool(FALSE) =>
         (SentQuery = QueryWithout("has_reactions") /\ Occurrences(HasReaction, SentQuery) = {})
    /\ "hasReactions" \notin DOMAIN params => Occurrences(HasReaction, SentQuery) = {}
    /\ Get(params, "hasReactions") = Bool(TRUE) =>
         /\ Cardinality(Occurrences(HasReaction, SentQuery)) = 1
         /\ Len(SentQuery) = Len(QueryWithout("has_reactions")) + Len(HasReaction)
    /\ Get(params, "hasThreads") = Bool(FALSE) =>
         (SentQuery = QueryWithout("has_threads") /\ Occurrences(HasThread, SentQuery) = {})
    /\ "hasThreads" \notin DOMAIN params => Occurrences(HasThread, SentQuery) = {}
    /\ Get(params, "hasThreads") = Bool(TRUE) =>
         /\ Cardinality(Occurrences(HasThread, SentQuery)) = 1
         /\ Len(SentQuery) = Len(QueryWithout("has_threads")) + Len(HasThread)

C13_Witness ==
  /\ Sent
  /\ "hasReactions" \in DOMAIN params /\ params["hasReactions"] = Bool(FALSE)
  /\ "hasThreads" \in DOMAIN params /\ params["hasThreads"] = Bool(TRUE)
  /\ Occurrences(HasReaction, SentQuery) = {}
  /\ Cardinality(Occurrences(HasThread, SentQuery)) = 1


\* ------------------------------------------------------------------------
\* C14 as stated: whenever the payload supplies a cursor string the schema
\* accepts, the outbound call carries exactly that string as cursor; when
\* the payload supplies no cursor, the outbound call has no cursor key.
\* ------------------------------------------------------------------------
C14_CursorPassedThrough ==
  Sent =>
    IF IsString(Get(input, "cursor"))
    THEN "cursor" \in DOMAIN calls[1] /\ calls[1]["cursor"] = input["cursor"]
    ELSE "cursor" \notin DOMAIN calls[1]

\* ------------------------------------------------------------------------
\* C14 amended: a non-empty cursor string is carried by the outbound call
\* unmodified; when the payload supplies no cursor, or supplies the empty
\* string (which the schema accepts), the outbound call has no cursor key.
\* ------------------------------------------------------------------------
C14_NonEmptyCursorPassedThrough ==
  Sent =>
    /\ Get(params, "cursor") = Get(input, "cursor")
    /\ IF NonEmptyString(Get(input, "cursor"))
       THEN "cursor" \in DOMAIN calls[1] /\ calls[1]["cursor"] = input["cursor"]
       ELSE "cursor" \notin DOMAIN calls[1]
    /\ DOMAIN calls[1] \subseteq {"query", "count", "cursor"}

C14_Witness ==
  /\ Sent
  /\ "cursor" \in DOMAIN input /\ input["cursor"] = Str(<<"n", "1">>)
  /\ calls[1]["cursor"] = Str(<<"n", "1">>)

\* ------------------------------------------------------------------------
\* C15: an invocation yields exactly one upstream request: with a valid
\* payload client.search.messages is called once and never again, whether
\* the call is pending, resolved (ok or not) or rejected; with an invalid
\* payload it is never called.
\* ------------------------------------------------------------------------
C15_OneCallPerInvocation ==
  /\ ~Invoked => calls = <<>>
  /\ Invoked => Len(calls) = (IF Accepted THEN 1 ELSE 0)
  /\ (pc = "done" /\ (fault # None \/ Settled)) => Len(calls) = 1

C15_Witness ==
  /\ pc = "done"
  /\ Settled
  /\ Get(response, "ok") = Bool(FALSE)
  /\ Len(calls) = 1

\* ------------------------------------------------------------------------
\* C16: when the gateway call rejects, the invocation rejects with that
\* same error: the outcome is not a result payload, not an empty result
\* set, and no second call was made.
\* ------------------------------------------------------------------------
C16_RejectionPropagates ==
  (pc = "done" /\ fault # None) =>
    /\ outcome = Rejected(fault)
    /\ result = Rejected(fault)
    /\ outcome.kind # "resolved"
    /\ Len(calls) = 1

C16_Witness ==
  /\ pc = "done"
  /\ fault = [t |-> "Error", message |-> "ratelimited"]
  /\ outcome.kind = "rejected"
  /\ outcome.error = fault


\* the input field each params key is named after, for the tool invoked
TranslatedPairs ==
  {<<"query", "query">>, <<"limit", "limit">>, <<"cursor", "cursor">>,
   <<"from_date", "fromDate">>, <<"to_date", "toDate">>, <<"user_id", "userId">>,
   <<"has_reactions", "hasReactions">>, <<"has_threads", "hasThreads">>}
    \cup (IF tool = "search_in_channel" THEN {<<"channel_id", "channelId">>} ELSE {})
\* the field is in the payload with a value
Supplied(k) == Get(input, k).t # "undefined"

\* ------------------------------------------------------------------------
\* C18: the params the handler hands to the client are the payload's fields
\* renamed one to one, every value unchanged: a key is in params exactly
\* when its field was supplied, no key holds undefined, and has_reactions
\* or has_threads given as false arrives as false.
\* ------------------------------------------------------------------------
C18_OneToOneRenaming ==
  Sent =>
    /\ \A p \in TranslatedPairs :
         /\ p[2] \in DOMAIN params <=> Supplied(p[1])
         /\ p[2] \in DOMAIN params => params[p[2]] = input[p[1]]
    /\ DOMAIN params = {p[2] : p \in {q \in TranslatedPairs : Supplied(q[1])}}
    /\ \A k \in DOMAIN params : params[k].t # "undefined"
    /\ Get(input, "has_reactions") = Bool(FALSE) => Get(params, "hasReactions") = Bool(FALSE)
    /\ Get(input, "has_threads") = Bool(FALSE) => Get(params, "hasThreads") = Bool(FALSE)

C18_Witness ==
  /\ Sent
  /\ tool = "search_in_channel"
  /\ DOMAIN input = {"query", "channel_id", "from_date", "has_reactions", "has_threads"}
  /\ input["has_reactions"] = Bool(FALSE)
  /\ DOMAIN params = {"query", "channelId", "fromDate", "hasReactions", "hasThreads"}
  /\ params["hasReactions"] = Bool(FALSE)
  /\ params["channelId"] = input["channel_id"]

\* Reading a JSON text back.  The pieces between two quotes are the
\* characters of a string, a backslash escaping the piece after it.
RECURSIVE ReadString(_, _, _)
ReadString(s, i, acc) ==
  IF s[i] = "\"" THEN [value |-> acc, next |-> i + 1]
  ELSE IF s[i] = "\\" THEN ReadString(s, i + 2, Append(acc, s[i + 1]))
  ELSE ReadString(s, i + 1, Append(acc, s[i]))

Whitespace == {"\n", "\n  ", "\n    ", "\n      "}
KeyPieces ==
  [results |-> "\"results\": ", nextCursor |-> "\"nextCursor\": ", text |-> "\"text\": ",
   author |-> "\"author\": ", channel |-> "\"channel\": ", timestamp |-> "\"timestamp\": "]
KeyName(piece) == CHOOSE k \in DOMAIN KeyPieces : KeyPieces[k] = piece

\* the tokens of the text from piece i on: strings and symbols
RECURSIVE Tokens(_, _)
Tokens(s, i) ==
  IF i > Len(s) THEN <<>>
  ELSE IF s[i] = "\""
    THEN LET r == ReadString(s, i + 1, <<>>)
         IN <<[k |-> "str", v |-> r.value]>> \o Tokens(s, r.next)
  ELSE IF s[i] \in Whitespace THEN Tokens(s, i + 1)
  ELSE <<[k |-> "sym", s |-> s[i]]>> \o Tokens(s, i + 1)

IsSym(tk, p) == tk.k = "sym" /\ tk.s = p

RECURSIVE ParseValue(_, _)
RECURSIVE ParseElements(_, _, _)
RECURSIVE ParseMembers(_, _, _)
\* the value that starts at token i, and the place after it
ParseValue(toks, i) ==
  IF toks[i].k = "str" THEN [value |-> Str(toks[i].v), next |-> i + 1]
  ELSE IF toks[i].s = "null" THEN [value |-> Null, next |-> i + 1]
  ELSE IF toks[i].s = "[]" THEN [value |-> Array(<<>>), next |-> i + 1]
  ELSE IF toks[i].s = "[" THEN ParseElements(toks, i + 1, <<>>)
  ELSE ParseMembers(toks, i + 1, EmptyObject)

ParseElements(toks, i, acc) ==
  LET r == ParseValue(toks, i)
  IN IF IsSym(toks[r.next], ",") THEN ParseElements(toks, r.next + 1, Append(acc, r.value))
     ELSE [value |-> Array(Append(acc, r.value)), next |-> r.next + 1]

ParseMembers(toks, i, acc) ==
  LET r == ParseValue(toks, i + 1)
      o == Merge(acc, Field(KeyName(toks[i].s), r.value))
  IN IF IsSym(toks[r.next], ",") THEN ParseMembers(toks, r.next + 1, o)
     ELSE [value |-> o, next |-> r.next + 1]

JSONParse(text) == ParseValue(Tokens(text, 1), 1).value

\* the handler returned a payload
Returned == pc = "done" /\ outcome.kind = "resolved"
Content == outcome.value["content"].v

\* ------------------------------------------------------------------------
\* C19: on success the handler returns one content item of type 'text'
\* whose text is the JSON serialization of the result set the client
\* returned: parsing the text gives back the same results sequence, and a
\* result set without nextCursor gives a text with no nextCursor key.
\* ------------------------------------------------------------------------
C19_PayloadRoundTrip ==
  Returned =>
    /\ DOMAIN outcome.value = {"content"}
    /\ Len(Content) = 1
    /\ Content[1].type = "text"
    /\ JSONParse(Content[1].text)["results"] = result.value["results"]
    /\ DOMAIN JSONParse(Content[1].text) = DOMAIN result.value
    /\ "nextCursor" \in DOMAIN result.value =>
         JSONParse(Content[1].text)["nextCursor"] = result.value["nextCursor"]
    /\ "nextCursor" \notin DOMAIN result.value =>
         /\ "nextCursor" \notin DOMAIN JSONParse(Content[1].text)
         /\ Occurrences(<<KeyPieces["nextCursor"]>>, Content[1].text) = {}

C19_Witness ==
  /\ Returned
  /\ Len(Records) = 2
  /\ Records[1].text = Str(<<"y", "\"", "\\">>)
  /\ "nextCursor" \notin DOMAIN result.value
  /\ JSONParse(Content[1].text)["results"].v[1].text = Str(<<"y", "\"", "\\">>)

\* the declared fields of the payload satisfy the schema of the tool
ValidDeclared ==
  /\ ValidApartFromLimit
  /\ LET l == Get(input, "limit")
     IN l.t = "undefined"
          \/ (l.t = "number" /\ l.v % 10 = 0 /\ l.v >= 10 * MIN_LIMIT /\ l.v <= 10 * MAX_LIMIT)

CallsOf(i) == SelectSeq(wire, LAMBDA c : c.flight = i)
\* the call the input of flight i alone determines
OwnCall(i) ==
  LET p == HandlerParams(flights[i].tool, Parsed(flights[i].tool, flights[i].input))
  IN SearchArguments(ClientQuery(flights[i].tool, p), Get(p, "limit"), Get(p, "cursor"))
FlightSent(i) ==
  flights[i].pc = "awaiting" \/ (flights[i].pc = "done" /\ flights[i].outcome.kind # "invalid")

\* ------------------------------------------------------------------------
\* C21: concurrent invocations on one server do not interfere, whatever the
\* interleaving: the outbound call of each is the one its own input
\* determines, its response the one its own gateway result determines, and
\* no invocation waits for another: an idle one can be invoked and a
\* pending one can settle whatever the others are doing.
\* ------------------------------------------------------------------------
C21_InvocationsIndependent ==
  \A i \in Flights :
    /\ Len(CallsOf(i)) = (IF FlightSent(i) THEN 1 ELSE 0)
    /\ FlightSent(i) =>
         /\ CallsOf(i)[1].arguments = OwnCall(i)
         /\ flights[i].params =
              HandlerParams(flights[i].tool, Parsed(flights[i].tool, flights[i].input))
    /\ (flights[i].pc = "done" /\ flights[i].settled.kind = "resolved") =>
         flights[i].outcome = HandlerOutcome(SearchResult(flights[i].settled.value))
    /\ (flights[i].pc = "done" /\ flights[i].settled.kind = "rejected") =>
         flights[i].outcome = Rejected(flights[i].settled.error)
    /\ flights[i].pc = "idle" =>
         ENABLED (\E t \in Tools, payload \in ConcurrentPayloads : InvokeFlight(i, t, payload))
    /\ flights[i].pc = "awaiting" =>
         /\ ENABLED (\E envelope \in ConcurrentEnvelopes : ResolveFlight(i, envelope))
         /\ ENABLED (\E error \in Errors : RejectFlight(i, error))

C21_Witness ==
  /\ Len(wire) = 2
  /\ wire[1].flight = 1 /\ wire[2].flight = 2
  /\ flights[1].pc = "awaiting"
  /\ flights[2].pc = "done" /\ flights[2].settled.kind = "resolved"
  /\ "cursor" \in DOMAIN flights[1].input
  /\ "cursor" \notin DOMAIN flights[2].input
  /\ "cursor" \notin DOMAIN wire[2].arguments


\* the servers createSlackMcpServer returned
Created == {k \in 1..Len(mcpServers) : mcpServers[k].slackClient # 0}
Listed(k) == {ListTools(mcpServers[k])[i] : i \in 1..Len(mcpServers[k].tools)}

\* ------------------------------------------------------------------------
\* C22: every server createSlackMcpServer returns has exactly two tools
\* registered, search_messages with query required and search_in_channel
\* with query and channel_id required, and tools/list reports exactly
\* these two.
\* ------------------------------------------------------------------------
C22_TwoToolsRegistered ==
  \A k \in Created :
    /\ Len(mcpServers[k].tools) = 2
    /\ Cardinality(Listed(k)) = 2
    /\ {t.name : t \in Listed(k)} = {"search_messages", "search_in_channel"}
    /\ \A t \in Listed(k) :
         /\ t.name = "search_messages" => t.required = {"query"}
         /\ t.name = "search_in_channel" => t.required = {"query", "channel_id"}
         /\ t.required \subseteq t.properties
    /\ \A i \in 1..2 : mcpServers[k].tools[i].handler = mcpServers[k].tools[i].name

C22_Witness ==
  /\ Len(connections) = 1
  /\ connections[1].server \in Created
  /\ Len(ListTools(mcpServers[connections[1].server])) = 2
  /\ ListTools(mcpServers[connections[1].server])[2].required = {"query", "channel_id"}

\* what validateConfig was run on
Configured == config # None
RawToken == Get(env, "SLACK_BOT_TOKEN")
\* the token is unset, empty or only white space
Blank(a) == a.t = "undefined" \/ \A i \in 1..Len(a.v) : a.v[i] \in WhiteSpace
\* no white space at either end
Trimmed(s) == s = <<>> \/ (s[1] \notin WhiteSpace /\ s[Len(s)] \notin WhiteSpace)

\* ------------------------------------------------------------------------
\* C23: validateConfig throws 'SLACK_BOT_TOKEN environment variable is
\* required' when SLACK_BOT_TOKEN is unset, empty or only white space;
\* otherwise it returns the token without its leading and trailing white
\* space.
\* ------------------------------------------------------------------------
C23_TokenRequiredAndTrimmed ==
  Configured =>
    IF Blank(RawToken)
    THEN config = Throw(Error("SLACK_BOT_TOKEN environment variable is required"))
    ELSE /\ config.kind = "returned"
         /\ LET token == config.value.slackBotToken.v
            IN /\ Trimmed(token) /\ token # <<>>
               /\ \E i \in 1..Len(RawToken.v) :
                    /\ SubSeq(RawToken.v, i, i + Len(token) - 1) = token
                    /\ \A j \in 1..Len(RawToken.v) :
                         (j < i \/ j >= i + Len(token)) => RawToken.v[j] \in WhiteSpace

C23_Witness ==
  /\ Configured
  /\ RawToken = Str(<<"\t", "x", "\n">>)
  /\ config.kind = "returned"
  /\ config.value.slackBotToken = Str(<<"x">>)


\* ------------------------------------------------------------------------
\* C24: validateConfig returns port 3000 when PORT is not set, and for
\* every PORT that is set the value parsed as a base-10 integer, so the
\* port returned is always an integer.
\* ------------------------------------------------------------------------
C24_PortIsInteger ==
  (Configured /\ config.kind = "returned") =>
    LET port == config.value.port
    IN /\ "PORT" \notin DOMAIN env => port = Int10(DEFAULT_PORT)
       /\ "PORT" \in DOMAIN env => port = ParseInt(env["PORT"].v)
       /\ ~IsNaN(port) /\ port.v % 10 = 0


\* ------------------------------------------------------------------------
\* C25: new SlackClient with an empty token throws 'Slack bot token is
\* required' and no client comes to exist; with a non-empty token the
\* construction succeeds.
\* ------------------------------------------------------------------------
C25_TokenRequiredByClient ==
  /\ constructed # None =>
       IF constructed.token = EmptyString
       THEN constructed.ended = Throw(Error("Slack bot token is required"))
       ELSE /\ constructed.ended.kind = "returned"
            /\ constructed.ended.value.client = WebClient(constructed.token)
  /\ Len(slackClients) =
       Cardinality(Created)
         + (IF constructed # None /\ constructed.ended.kind = "returned" THEN 1 ELSE 0)
  /\ \A k \in 1..Len(slackClients) : Truthy(slackClients[k].client.token)

C25_Witness ==
  /\ constructed # None
  /\ constructed.token = EmptyString
  /\ constructed.ended.kind = "thrown"
  /\ slackClients = <<>>


\* the handler is suspended on its await of the outbound call
Suspended == pc = "awaiting"
\* the outbound call was issued and has not settled
InFlight == Len(calls) = 1 /\ response = EmptyObject /\ fault = None

\* ------------------------------------------------------------------------
\* C26: an invocation with a valid input whose gateway call settles ends
\* with exactly one outcome: a result payload when the call resolves, an
\* ok:false envelope included, and the propagated fault when it rejects.
\* The handler is suspended exactly while its single call is in flight, has
\* no outcome before the call settles, and its outcome never changes.
\* ------------------------------------------------------------------------
C26_SettlesWithOneOutcome ==
  /\ [](Suspended <=> (Accepted /\ InFlight))
  /\ [](Suspended => outcome = None)
  /\ []((pc = "done" /\ Accepted) =>
          /\ Settled => (outcome.kind = "resolved" /\ fault = None)
          /\ fault # None => (outcome = Rejected(fault) /\ ~Settled)
          /\ Settled \/ fault # None)
  /\ [][outcome # None => outcome' = outcome]_vars
  /\ (Suspended ~> (pc = "done" /\ outcome # None))

C26_Witness ==
  /\ pc = "done"
  /\ Accepted
  /\ Settled
  /\ Get(response, "ok") = Bool(FALSE)
  /\ outcome = Resolved(ToolResult(Field("results", Array(<<>>))))


\* the response payload flight i returned, read back by its caller
PayloadOf(i) == JSONParse(flights[i].outcome.value["content"].v[1].text)
FlightReturned(i) == flights[i].pc = "done" /\ flights[i].outcome.kind = "resolved"
\* flight j was invoked after flight i had ended
Follows(j, i) == i \in flights[j].after

\* ------------------------------------------------------------------------
\* C27: when the response of one invocation carries nextCursor c and a
\* following invocation supplies cursor = c, the outbound call of that
\* invocation carries cursor c exactly; nothing keeps a cursor between
\* invocations: a call carries a cursor only when its own caller supplied
\* it, and then that one.
\* ------------------------------------------------------------------------
C27_CursorOnlyFromCaller ==
  /\ \A i \in Flights, j \in Flights :
       (/\ FlightReturned(i) /\ "nextCursor" \in DOMAIN PayloadOf(i)
        /\ Follows(j, i) /\ FlightSent(j)
        /\ Get(flights[j].input, "cursor") = PayloadOf(i)["nextCursor"])
         => Get(CallsOf(j)[1].arguments, "cursor") = PayloadOf(i)["nextCursor"]
  /\ \A j \in Flights :
       FlightSent(j) =>
         /\ "cursor" \in DOMAIN CallsOf(j)[1].arguments =>
              CallsOf(j)[1].arguments["cursor"] = Get(flights[j].input, "cursor")
         /\ "cursor" \notin DOMAIN flights[j].input =>
              "cursor" \notin DOMAIN CallsOf(j)[1].arguments
  /\ client = NewSlackClient(BotToken).value

C27_Witness ==
  /\ FlightReturned(1)
  /\ "nextCursor" \in DOMAIN PayloadOf(1)
  /\ PayloadOf(1)["nextCursor"] = Str(<<"n", "2">>)
  /\ Follows(2, 1)
  /\ FlightSent(2)
  /\ "cursor" \in DOMAIN flights[2].input
  /\ flights[2].input["cursor"] = PayloadOf(1)["nextCursor"]
  /\ CallsOf(2)[1].arguments["cursor"] = Str(<<"n", "2">>)


\* ------------------------------------------------------------------------
\* C28: a search leaves its inputs as they were: once the handler has run,
\* its input object never changes; the params object is the one the
\* handler built and neither buildSearchQuery nor executeSearch writes to
\* it; the SlackClient instance is the same after every step.
\* ------------------------------------------------------------------------
C28_InputsUnchanged ==
  /\ [](Sent => params = HandlerParams(tool, Parsed(tool, input)))
  /\ [](client = NewSlackClient(BotToken).value)
  /\ [][/\ Invoked => (input' = input /\ tool' = tool)
        /\ Sent => (params' = params /\ query' = query)
        /\ client' = client]_vars

C28_Witness ==
  /\ pc = "done"
  /\ result.kind = "resolved"
  /\ "nextCursor" \in DOMAIN result.value
  /\ DOMAIN params = {"query", "fromDate", "hasReactions"}
  /\ params = HandlerParams(tool, Parsed(tool, input))


SentCount == calls[1]["count"]

\* ------------------------------------------------------------------------
\* C29: for every invocation that passes validation, the outbound call has
\* a count that is an integer in 1..100 and a query string that begins
\* with the caller's non-empty query text, verbatim: nothing is escaped or
\* quoted.
\* ------------------------------------------------------------------------
C29_CountAndQueryOfEveryCall ==
  Sent =>
    /\ SentCount.t = "number"
    /\ SentCount.v % 10 = 0
    /\ SentCount.v >= 10 * 1 /\ SentCount.v <= 10 * 100
    /\ Len(input["query"].v) > 0
    /\ SubSeq(SentQuery, 1, Len(input["query"].v)) = input["query"].v
    /\ \A k \in {"from_date", "to_date", "user_id"} :
         NonEmptyString(Get(input, k)) => Occurrences(input[k].v, SentQuery) # {}
    /\ Len(SentQuery) =
         Len(input["query"].v)
           + (IF Requested[1] THEN Len(After) + Len(input["from_date"].v) ELSE 0)
           + (IF Requested[2] THEN Len(Before) + Len(input["to_date"].v) ELSE 0)
           + (IF Requested[3] THEN Len(From) + Len(input["user_id"].v) ELSE 0)
           + (IF Requested[4] THEN Len(HasReaction) ELSE 0)
           + (IF Requested[5] THEN Len(HasThread) ELSE 0)
           + (IF Requested[6] THEN Len(In) + Len(input["channel_id"].v) ELSE 0)

C29_Witness ==
  /\ Sent
  /\ input["query"] = Str(<<"\"", "p", "\"">>)
  /\ SentCount = Int10(5)
  /\ SubSeq(SentQuery, 1, 3) = <<"\"", "p", "\"">>
  /\ Len(SentQuery) > 3


NotConfigured == Answer(500, "SLACK_BOT_TOKEN environment variable not configured")
FailedToInitialize == Answer(500, "Failed to initialize Slack MCP server")
AnswersEqual(a) == {k \in 1..Len(answers) : answers[k] = a}
\* every GET is answered, and a set-up that threw is answered 500
SetUpFailuresAnswered ==
  /\ Cardinality(AnswersEqual(FailedToInitialize)) = Len(mcpServers) - Len(connections)
  /\ Cardinality(AnswersEqual(Stream)) = Len(connections)
  /\ \A k \in 1..Len(answers) : answers[k] \in {NotConfigured, FailedToInitialize, Stream}
\* a step of the route adds exactly one answer
OneAnswerPerRequest ==
  (mcpServers' # mcpServers \/ connections' # connections) => Len(answers') = Len(answers) + 1
\* each connection has a server and a SlackClient of its own
OwnServerAndClient ==
  /\ \A k \in 1..Len(connections) : connections[k].server \in Created
  /\ \A k \in 1..Len(connections), l \in 1..Len(connections) :
       k # l => /\ connections[k].server # connections[l].server
                /\ mcpServers[connections[k].server].slackClient
                     # mcpServers[connections[l].server].slackClient
  /\ \A k \in Created : mcpServers[k].slackClient \in 1..Len(slackClients)

\* ------------------------------------------------------------------------
\* C30 as stated: a GET on /mcp/slack/sse never lets a set-up failure
\* escape; when SLACK_BOT_TOKEN is not configured it answers 500 with an
\* error body and creates neither an MCP server nor a SlackClient; when
\* creating the server or connecting throws it answers 500 'Failed to
\* initialize Slack MCP server'; each connection that succeeds has its own
\* new server and SlackClient.
\* ------------------------------------------------------------------------
C30_TokenCheckedByRoute ==
  /\ [](SetUpFailuresAnswered /\ OwnServerAndClient)
  /\ [][OneAnswerPerRequest]_vars
  /\ [](~Truthy(RawToken) =>
          /\ mcpServers = <<>>
          /\ \A k \in 1..Len(answers) : answers[k].status = 500 /\ "error" \in DOMAIN answers[k])

\* ------------------------------------------------------------------------
\* C30 amended: the same, except that only the application whose route
\* reads SLACK_BOT_TOKEN answers an unset or empty variable with 500 and
\* creates nothing; the application created with its token does not read
\* the environment, and an empty token there is answered 500 'Failed to
\* initialize Slack MCP server' after the McpServer was constructed and the
\* SlackClient constructor threw.
\* ------------------------------------------------------------------------
C30_SetUpFailureAnswered ==
  /\ [](SetUpFailuresAnswered /\ OwnServerAndClient)
  /\ [][OneAnswerPerRequest]_vars
  /\ []((app # None /\ app.readsEnv /\ ~Truthy(RawToken)) =>
          /\ mcpServers = <<>>
          /\ \A k \in 1..Len(answers) : answers[k] = NotConfigured)
  /\ []((app # None /\ app.readsEnv /\ Truthy(RawToken)) => AnswersEqual(NotConfigured) = {})
  /\ []((app # None /\ ~app.readsEnv) =>
          /\ AnswersEqual(NotConfigured) = {}
          /\ ~Truthy(app.slackBotToken) =>
               /\ Created = {} /\ connections = <<>>
               /\ Len(mcpServers) = Len(answers)
               /\ \A k \in 1..Len(answers) : answers[k] = FailedToInitialize)

C30_Witness ==
  /\ app # None /\ ~app.readsEnv
  /\ ~Truthy(RawToken)
  /\ Len(answers) = 2
  /\ answers[1] = Stream
  /\ answers[2] = FailedToInitialize
  /\ Len(mcpServers) = 2 /\ Len(connections) = 1

====
